---- MODULE Spec2Model ----
(***************************************************************************)
(* Model of the Frontier backend: the summarize-paper / summary-quota      *)
(* handlers of backend/main.py (identity resolution, sliding-window quota  *)
(* ledger, cache-or-generate orchestration) and the summary cache of       *)
(* backend/firebase_service.py (key sanitizer, best-effort get/set).       *)
(*                                                                         *)
(* Strings are sequences of one-character strings, so that startswith,     *)
(* split, re.sub, strip and len are computed as the code computes them.    *)
(* Time is the integer number of seconds returned by time.time().          *)
(***************************************************************************)
EXTENDS Integers, Sequences, FiniteSets, TLC

VARIABLES
    clock,                 \* the value time.time() returns now
    guest_summary_usage,   \* main.py:27  ip -> list of timestamps
    user_summary_usage,    \* main.py:28  uid -> list of timestamps
    firebase_initialized,  \* firebase_service.py:11 (db is set iff TRUE)
    summaries,             \* the Firestore collection "summaries": key -> document
    inflight,              \* requests accepted by the server, handler not yet run
    resp,                  \* the response of the handler that ran last
    nreq,                  \* number of handlers run so far
    generated,             \* history: paper_id -> first summary generated with the store working
    store_failed,          \* history: some store call (init, get, set) has failed
    was_exhausted,         \* history: the identities that have been at their limit
    arrived_below,         \* history: request kind -> a request of the kind in flight
                           \*   arrived while its identity was below its limit
    san,                   \* sanitizer harness: [input, output, done]
    cache_call,            \* cache harness: the last direct call of get/set_summary_cache
    last_set,              \* history: paper_id -> the summary set under it with the store
                           \*   working and no later write to the same sanitized key
    abstract,              \* the abstract in the body of the summarize request handled last
    search,                \* the response of the search / trending handler that ran last
    loop                   \* the event loop: idle, or held by a handler whose external
                           \*   call has not returned

vars == <<clock, guest_summary_usage, user_summary_usage, firebase_initialized,
          summaries, inflight, resp, nreq, generated, store_failed, was_exhausted,
          arrived_below, san, cache_call, last_set, abstract, search, loop>>

harness == <<san, cache_call, last_set, search, loop>>

----------------------------------------------------------------------------
(* Program constants *)

GUEST_LIMIT == 5
USER_LIMIT == 50
WINDOW_SECONDS == 3600
MAX_KEY_LEN == 1000
MD5_HEX_LEN == 32

(* Bounds of the model *)

TickSize == 1200       \* granularity of the clock, in seconds
MaxClock == 4000       \* the clock stops advancing here
MaxRequests == 4       \* handlers run in one behaviour
MaxServiceRequests == 2 \* handlers run in one behaviour of the unrestricted service
MaxInflight == 2       \* requests in flight at once, when handling is concurrent
PreUsedUser == 48      \* timestamps (at time 0) an authenticated user may start with
PreUsedGuest == 3      \* timestamps (at time 0) an anonymous address may start with
MaxIdLen == 2          \* length of the enumerated sanitizer inputs
MaxCacheCalls == 3     \* direct calls of the cache functions in one behaviour
MaxResults == 2        \* works in one response of the search API
MaxFrameRequests == 3  \* handlers run in one behaviour with several clients

None == "None"

----------------------------------------------------------------------------
(* Strings *)

OpenAlexPrefix ==
    <<"h","t","t","p","s",":","/","/","o","p","e","n","a","l","e","x",".","o","r","g","/">>

\* the characters re.sub replaces: / \ . # [ ] * ?
ForbiddenChars == {"/", "\\", ".", "#", "[", "]", "*", "?"}

Whitespace == {" ", "\t", "\n"}

startswith(s, p) ==
    /\ Len(s) >= Len(p)
    /\ SubSeq(s, 1, Len(p)) = p

\* s.split('/')[-1]: what follows the last '/', the whole string when there is none
SplitLast(s) ==
    LET slashes == {i \in 1..Len(s) : s[i] = "/"}
        last == IF slashes = {} THEN 0
                ELSE CHOOSE i \in slashes : \A j \in slashes : j <= i
    IN SubSeq(s, last + 1, Len(s))

\* re.sub(r'[/\\\.#\[\]\*\?]', '_', s)
ReSubForbidden(s) == [i \in 1..Len(s) |-> IF s[i] \in ForbiddenChars THEN "_" ELSE s[i]]

HexDigits == <<"0","1","2","3","4","5","6","7","8","9","a","b","c","d","e","f">>

Md5OfEmpty ==
    <<"d","4","1","d","8","c","d","9","8","f","0","0","b","2","0","4",
      "e","9","8","0","0","9","9","8","e","c","f","8","4","2","7","e">>

\* hashlib.md5(s.encode()).hexdigest(): 32 lowercase hex digits.  The digest of
\* the empty string is the real one; for the other inputs the digits stand for
\* the digest (a function of the input with the digest's length and alphabet).
Md5Hex(s) ==
    IF s = <<>> THEN Md5OfEmpty
    ELSE [i \in 1..MD5_HEX_LEN |->
            HexDigits[((Len(s) * i + Cardinality({j \in 1..Len(s) : s[j] = s[1]}) + i) % 16) + 1]]

\* s.strip()
Strip(s) ==
    LET keep == {i \in 1..Len(s) : s[i] \notin Whitespace}
    IN IF keep = {} THEN <<>>
       ELSE LET lo == CHOOSE i \in keep : \A j \in keep : i <= j
                hi == CHOOSE i \in keep : \A j \in keep : j <= i
            IN SubSeq(s, lo, hi)

----------------------------------------------------------------------------
(* firebase_service.py: the cache key sanitizer *)

\* split('/')[0] for split('/')[-1]: the first piece of the URL, not the last
sanitize_paper_id_FirstPiece(paper_id) ==
    IF startswith(paper_id, OpenAlexPrefix)
    THEN SubSeq(paper_id, 1, 6)
    ELSE LET sanitized == ReSubForbidden(paper_id)
         IN IF sanitized = <<>> \/ Len(sanitized) > MAX_KEY_LEN
            THEN Md5Hex(paper_id)
            ELSE sanitized

sanitize_paper_id(paper_id) ==
    IF startswith(paper_id, OpenAlexPrefix)
    THEN SplitLast(paper_id)
    ELSE LET sanitized == ReSubForbidden(paper_id)
         IN IF sanitized = <<>> \/ Len(sanitized) > MAX_KEY_LEN
            THEN Md5Hex(paper_id)
            ELSE sanitized

----------------------------------------------------------------------------
(* The inputs of the handlers *)

IPs == {"ip1", "ip2"}
Users == {"u1", "u2"}

\* The Authorization header: absent (or not "Bearer ..."), a bearer token whose
\* verification raises, a bearer token that verifies to a uid.
AuthHeaders == {<<"none">>, <<"bad">>} \cup {<<"ok", u>> : u \in Users}

Endpoints == {"summarize", "quota"}

ReqKinds == [ep : Endpoints, auth : AuthHeaders, ip : IPs]

PlainId == <<"W","1">>
UrlId == OpenAlexPrefix \o <<"W","1">>
SlashUrlId == OpenAlexPrefix

PaperIds == {PlainId, UrlId, SlashUrlId}

SummarizeKinds == {k \in ReqKinds : k.ep = "summarize"}

\* the requests of one client: one address, one account
MainKinds == {k \in ReqKinds : k.ip = "ip1" /\ k.auth # <<"ok", "u2">>}

Abstracts == {<<>>, <<" ">>, <<"t","e","x","t">>}

\* what the completion API may return as message.content
Summaries == {"S1", "S2"}

----------------------------------------------------------------------------
(* The document store behind firestore_db.collection("summaries") *)

\* A document id the store accepts: not empty, not "." or "..", no "/",
\* at most 1500 bytes.  document(id).get() and .set() raise on any other id.
ValidDocumentId(key) ==
    /\ key # <<>>
    /\ key # <<".">>
    /\ key # <<".", ".">>
    /\ \A i \in 1..Len(key) : key[i] # "/"
    /\ Len(key) <= 1500

DocKeys == {k \in {sanitize_paper_id(p) : p \in PaperIds} : ValidDocumentId(k)}

\* doc.exists is False: no document under the key
NoDoc ==
    [exists |-> FALSE, summary |-> None, original_paper_id |-> <<>>, timestamp |-> None]

Document(summary, paper_id) ==
    [exists |-> TRUE, summary |-> summary, original_paper_id |-> paper_id,
     timestamp |-> "SERVER_TIMESTAMP"]

\* init_firebase(): returns db once initialized; otherwise tries to initialize,
\* which succeeds (init_ok) or fails and leaves the cache disabled for this call.
init_firebase(fi, init_ok) ==
    [db |-> fi \/ init_ok, fi |-> fi \/ init_ok]

\* get_summary_cache without its try/except: a failing lookup raises
get_summary_cache_Raises(paper_id, fi, docs, init_ok, op_ok) ==
    LET i == init_firebase(fi, init_ok)
    IN IF ~i.db
       THEN [result |-> NoDoc, fi |-> i.fi, outcome |-> "unavailable", raised |-> FALSE]
       ELSE LET sanitized_id == sanitize_paper_id(paper_id)
            IN IF ~op_ok \/ ~ValidDocumentId(sanitized_id)
               THEN [result |-> NoDoc, fi |-> i.fi, outcome |-> "error", raised |-> TRUE]
               ELSE IF docs[sanitized_id].exists
                    THEN [result |-> docs[sanitized_id], fi |-> i.fi,
                          outcome |-> "hit", raised |-> FALSE]
                    ELSE [result |-> NoDoc, fi |-> i.fi, outcome |-> "miss", raised |-> FALSE]

\* get_summary_cache(paper_id): the record or None (NoDoc); never raises.
\* op_ok: the store call itself goes through (no network or server failure).
get_summary_cache(paper_id, fi, docs, init_ok, op_ok) ==
    LET i == init_firebase(fi, init_ok)
    IN IF ~i.db
       THEN [result |-> NoDoc, fi |-> i.fi, outcome |-> "unavailable", raised |-> FALSE]
       ELSE LET sanitized_id == sanitize_paper_id(paper_id)
            IN IF ~op_ok \/ ~ValidDocumentId(sanitized_id)
               THEN [result |-> NoDoc, fi |-> i.fi, outcome |-> "error", raised |-> FALSE]
               ELSE IF docs[sanitized_id].exists
                    THEN [result |-> docs[sanitized_id], fi |-> i.fi,
                          outcome |-> "hit", raised |-> FALSE]
                    ELSE [result |-> NoDoc, fi |-> i.fi, outcome |-> "miss", raised |-> FALSE]

\* set_summary_cache(paper_id, summary): writes the record; never raises.
set_summary_cache(paper_id, summary, fi, docs, init_ok, op_ok) ==
    LET i == init_firebase(fi, init_ok)
    IN IF ~i.db
       THEN [docs |-> docs, fi |-> i.fi, outcome |-> "unavailable", raised |-> FALSE]
       ELSE LET sanitized_id == sanitize_paper_id(paper_id)
            IN IF ~op_ok \/ ~ValidDocumentId(sanitized_id)
               THEN [docs |-> docs, fi |-> i.fi, outcome |-> "error", raised |-> FALSE]
               ELSE [docs |-> [docs EXCEPT ![sanitized_id] = Document(summary, paper_id)],
                     fi |-> i.fi, outcome |-> "written", raised |-> FALSE]

----------------------------------------------------------------------------
(* main.py: identity and the quota ledger *)

\* a bearer token whose verification fails still counts as logged in
get_user_from_request_TrustsBearer(auth) ==
    IF auth[1] = "ok" THEN <<TRUE, auth[2]>>
    ELSE IF auth[1] = "bad" THEN <<TRUE, "u1">>
    ELSE <<FALSE, None>>

\* get_user_from_request(request) -> (logged_in, user_id)
get_user_from_request(auth) ==
    IF auth[1] = "ok" THEN <<TRUE, auth[2]>> ELSE <<FALSE, None>>

Max(a, b) == IF a >= b THEN a ELSE b

\* the window test with <= for <: a timestamp exactly WINDOW_SECONDS old is kept
Prune_KeepsBoundary(usage, now) == SelectSeq(usage, LAMBDA ts : now - ts <= WINDOW_SECONDS)

\* [ts for ts in usage if now - ts < WINDOW_SECONDS]
Prune(usage, now) == SelectSeq(usage, LAMBDA ts : now - ts < WINDOW_SECONDS)

IsUser(logged_in, user_id) == logged_in /\ user_id # None

LimitOf(logged_in, user_id) == IF IsUser(logged_in, user_id) THEN USER_LIMIT ELSE GUEST_LIMIT

\* the list the request is charged to
UsageOf(logged_in, user_id, ip, gu, uu) ==
    IF IsUser(logged_in, user_id) THEN uu[user_id] ELSE gu[ip]

\* one list per address for both classes: an account's usage is also written
\* to the list of the address it came from
SetUsage_PerAddress(logged_in, user_id, ip, gu, uu, usage) ==
    IF logged_in /\ user_id # None
    THEN [gu |-> [gu EXCEPT ![ip] = usage], uu |-> [uu EXCEPT ![user_id] = usage]]
    ELSE [gu |-> [gu EXCEPT ![ip] = usage], uu |-> uu]

SetUsage(logged_in, user_id, ip, gu, uu, usage) ==
    IF IsUser(logged_in, user_id)
    THEN [gu |-> gu, uu |-> [uu EXCEPT ![user_id] = usage]]
    ELSE [gu |-> [gu EXCEPT ![ip] = usage], uu |-> uu]

\* the count taken without storing the pruned list back
get_remaining_summaries_NoStore(logged_in, user_id, ip, now, gu, uu) ==
    LET kept == SelectSeq(UsageOf(logged_in, user_id, ip, gu, uu),
                          LAMBDA ts : now - ts < WINDOW_SECONDS)
    IN [remaining |-> Max(0, LimitOf(logged_in, user_id) - Len(kept)), gu |-> gu, uu |-> uu]

\* get_remaining_summaries(logged_in, user_id, ip), reading the clock as now
get_remaining_summaries(logged_in, user_id, ip, now, gu, uu) ==
    LET kept == Prune(UsageOf(logged_in, user_id, ip, gu, uu), now)
        used == Len(kept)
        m == SetUsage(logged_in, user_id, ip, gu, uu, kept)
    IN [remaining |-> Max(0, LimitOf(logged_in, user_id) - used), gu |-> m.gu, uu |-> m.uu]

\* the limit check with > for >=: one request too many is admitted
CheckAndUpdate_OffByOne(logged_in, user_id, ip, now, gu, uu) ==
    LET kept == SelectSeq(UsageOf(logged_in, user_id, ip, gu, uu),
                          LAMBDA ts : now - ts < WINDOW_SECONDS)
        limit == IF logged_in /\ user_id # None THEN USER_LIMIT ELSE GUEST_LIMIT
    IN IF Len(kept) > limit
       THEN LET m == SetUsage(logged_in, user_id, ip, gu, uu, kept)
            IN [admitted |-> FALSE, gu |-> m.gu, uu |-> m.uu]
       ELSE LET m == SetUsage(logged_in, user_id, ip, gu, uu, Append(kept, now))
            IN [admitted |-> TRUE, gu |-> m.gu, uu |-> m.uu]

\* the append moved ahead of the comparison: a rejected request is recorded too
CheckAndUpdate_AppendsFirst(logged_in, user_id, ip, now, gu, uu) ==
    LET kept == SelectSeq(UsageOf(logged_in, user_id, ip, gu, uu),
                          LAMBDA ts : now - ts < WINDOW_SECONDS)
        limit == IF logged_in /\ user_id # None THEN USER_LIMIT ELSE GUEST_LIMIT
        m == SetUsage(logged_in, user_id, ip, gu, uu, Append(kept, now))
    IN [admitted |-> Len(kept) < limit, gu |-> m.gu, uu |-> m.uu]

\* the comparison with the limit dropped: every request is admitted
CheckAndUpdate_NoLimit(logged_in, user_id, ip, now, gu, uu) ==
    LET kept == SelectSeq(UsageOf(logged_in, user_id, ip, gu, uu),
                          LAMBDA ts : now - ts < WINDOW_SECONDS)
        m == SetUsage(logged_in, user_id, ip, gu, uu, Append(kept, now))
    IN [admitted |-> TRUE, gu |-> m.gu, uu |-> m.uu]

\* summarize_paper, "Check and update rate limits": prune, compare, append
CheckAndUpdate(logged_in, user_id, ip, now, gu, uu) ==
    LET kept == Prune(UsageOf(logged_in, user_id, ip, gu, uu), now)
    IN IF Len(kept) >= LimitOf(logged_in, user_id)
       THEN LET m == SetUsage(logged_in, user_id, ip, gu, uu, kept)
            IN [admitted |-> FALSE, gu |-> m.gu, uu |-> m.uu]
       ELSE LET m == SetUsage(logged_in, user_id, ip, gu, uu, Append(kept, now))
            IN [admitted |-> TRUE, gu |-> m.gu, uu |-> m.uu]

----------------------------------------------------------------------------
(* The responses *)

NoResp ==
    [ep |-> None, auth |-> <<"none">>, ip |-> None, status |-> 0, kind |-> None,
     remaining |-> -1, summary |-> None, cached |-> FALSE, paper_id |-> <<>>,
     groq |-> "not_called", cache_get |-> "skipped", cache_set |-> "skipped",
     below_on_arrival |-> FALSE]

Response(rq, status, kind, remaining, summary, cached, paper_id, groq, cache_get, cache_set) ==
    [ep |-> rq.ep, auth |-> rq.auth, ip |-> rq.ip, status |-> status, kind |-> kind,
     remaining |-> remaining, summary |-> summary, cached |-> cached, paper_id |-> paper_id,
     groq |-> groq, cache_get |-> cache_get, cache_set |-> cache_set,
     below_on_arrival |-> arrived_below[rq]]

\* the identity a request is charged to, and what the ledger holds for it
Bucket(rq) ==
    LET id == get_user_from_request(rq.auth)
    IN IF IsUser(id[1], id[2]) THEN <<"user", id[2]>> ELSE <<"guest", rq.ip>>

BucketUsage(b, gu, uu) == IF b[1] = "user" THEN uu[b[2]] ELSE gu[b[2]]

BucketLimit(b) == IF b[1] = "user" THEN USER_LIMIT ELSE GUEST_LIMIT

Buckets == {<<"user", u>> : u \in Users} \cup {<<"guest", ip>> : ip \in IPs}

\* the timestamps of usage inside the window at time now
CountInWindow(usage, now) ==
    Cardinality({i \in 1..Len(usage) : now - usage[i] < WINDOW_SECONDS})

BelowLimit(rq) ==
    CountInWindow(BucketUsage(Bucket(rq), guest_summary_usage, user_summary_usage), clock)
        < BucketLimit(Bucket(rq))

InflightTotal ==
    Cardinality({<<k, i>> \in ReqKinds \X (1..(MaxInflight + 1)) : i <= inflight[k]})

\* the handler of rq starts: it runs to its response without a suspension point
\* (async def, no await), so no other handler runs in between
Starts(rq) ==
    /\ inflight[rq] > 0
    /\ inflight' = [inflight EXCEPT ![rq] = @ - 1]
    /\ arrived_below' = [arrived_below EXCEPT ![rq] = @ /\ inflight[rq] > 1]
    /\ nreq' = nreq + 1

\* a store call fails: the initialization, or the call on the initialized client
StoreFailure(fi, init_ok, op_ok) == (~fi /\ ~init_ok) \/ ((fi \/ init_ok) /\ ~op_ok)

----------------------------------------------------------------------------
(* main.py: the handlers *)

\* a request reaches the server, which holds fewer than max requests;
\* max_requests bounds the handlers of one behaviour
Arrive(rq, max, max_requests) ==
    /\ InflightTotal < max
    /\ nreq + InflightTotal < max_requests
    /\ inflight' = [inflight EXCEPT ![rq] = @ + 1]
    /\ arrived_below' = [arrived_below EXCEPT ![rq] = @ \/ BelowLimit(rq)]
    /\ UNCHANGED <<clock, guest_summary_usage, user_summary_usage, firebase_initialized,
                   summaries, resp, nreq, generated, store_failed, was_exhausted, abstract,
                   harness>>

\* time passes between handlers
Tick ==
    /\ clock + TickSize <= MaxClock
    /\ clock' = clock + TickSize
    /\ UNCHANGED <<guest_summary_usage, user_summary_usage, firebase_initialized,
                   summaries, inflight, resp, nreq, generated, store_failed, was_exhausted,
                   arrived_below, abstract, harness>>

\* GET /summary-quota
get_summary_quota(rq) ==
    /\ rq.ep = "quota"
    /\ Starts(rq)
    /\ LET id == get_user_from_request(rq.auth)
           r == get_remaining_summaries(id[1], id[2], rq.ip, clock,
                                        guest_summary_usage, user_summary_usage)
       IN /\ guest_summary_usage' = r.gu
          /\ user_summary_usage' = r.uu
          /\ resp' = Response(rq, 200, "quota", r.remaining, None, FALSE, <<>>,
                              "not_called", "skipped", "skipped")
    /\ UNCHANGED <<clock, firebase_initialized, summaries, generated, store_failed,
                   was_exhausted, abstract, harness>>

\* POST /summarize-paper, lines 203-239 when the limit is reached: HTTP 429 whose
\* detail carries get_remaining_summaries(), which reads the clock again (now + d)
SummarizeRejected(rq, d) ==
    LET id == get_user_from_request(rq.auth)
        adm == CheckAndUpdate(id[1], id[2], rq.ip, clock, guest_summary_usage, user_summary_usage)
        r == get_remaining_summaries(id[1], id[2], rq.ip, clock + d, adm.gu, adm.uu)
    IN /\ ~adm.admitted
       /\ clock + d <= MaxClock
       /\ clock' = clock + d
       /\ guest_summary_usage' = r.gu
       /\ user_summary_usage' = r.uu
       /\ resp' = Response(rq, 429, "rate_limited", r.remaining, None, FALSE, <<>>,
                           "not_called", "skipped", "skipped")
       /\ UNCHANGED <<firebase_initialized, summaries, generated, store_failed>>

\* the validation ahead of the admission: a body without an abstract is not charged
SummarizeNoAbstract_NotCharged(rq, paper_id, req_abstract) ==
    /\ req_abstract = <<>> \/ Strip(req_abstract) = <<>>
    /\ guest_summary_usage' = guest_summary_usage
    /\ user_summary_usage' = user_summary_usage
    /\ resp' = Response(rq, 200, "validation_error", -1, None, FALSE, paper_id,
                        "not_called", "skipped", "skipped")
    /\ UNCHANGED <<clock, firebase_initialized, summaries, generated, store_failed>>

\* lines 248-250: admitted, no abstract
SummarizeNoAbstract(rq, paper_id, req_abstract) ==
    LET id == get_user_from_request(rq.auth)
        adm == CheckAndUpdate(id[1], id[2], rq.ip, clock, guest_summary_usage, user_summary_usage)
    IN /\ adm.admitted
       /\ req_abstract = <<>> \/ Strip(req_abstract) = <<>>
       /\ guest_summary_usage' = adm.gu
       /\ user_summary_usage' = adm.uu
       /\ resp' = Response(rq, 200, "validation_error", -1, None, FALSE, paper_id,
                           "not_called", "skipped", "skipped")
       /\ UNCHANGED <<clock, firebase_initialized, summaries, generated, store_failed>>

\* the outcomes of a store call: of the initialization when it is attempted,
\* of the call on the client when there is one
InitOutcomes(fi, store) == IF fi THEN {TRUE} ELSE store
OpOutcomes(db, store) == IF db THEN store ELSE {TRUE}

\* the remaining count of a cache hit taken by a second admission
SummarizeCached_ChargedTwice(rq, paper_id, adm, c, get_failed, d) ==
    LET id == get_user_from_request(rq.auth)
        again == CheckAndUpdate(id[1], id[2], rq.ip, clock + d, adm.gu, adm.uu)
        r == get_remaining_summaries(id[1], id[2], rq.ip, clock + d, again.gu, again.uu)
    IN /\ clock + d <= MaxClock
       /\ clock' = clock + d
       /\ guest_summary_usage' = r.gu
       /\ user_summary_usage' = r.uu
       /\ firebase_initialized' = c.fi
       /\ resp' = Response(rq, 200, "cached", r.remaining, c.result.summary, TRUE,
                           paper_id, "not_called", c.outcome, "skipped")
       /\ store_failed' = (store_failed \/ get_failed)
       /\ UNCHANGED <<summaries, generated>>

\* lines 254-262: cache hit
SummarizeCached(rq, paper_id, adm, c, get_failed, d) ==
    LET id == get_user_from_request(rq.auth)
        r == get_remaining_summaries(id[1], id[2], rq.ip, clock + d, adm.gu, adm.uu)
    IN /\ clock + d <= MaxClock
       /\ clock' = clock + d
       /\ guest_summary_usage' = r.gu
       /\ user_summary_usage' = r.uu
       /\ firebase_initialized' = c.fi
       /\ resp' = Response(rq, 200, "cached", r.remaining, c.result.summary, TRUE,
                           paper_id, "not_called", c.outcome, "skipped")
       /\ store_failed' = (store_failed \/ get_failed)
       /\ UNCHANGED <<summaries, generated>>

\* the failure path giving the admitted usage back
SummarizeGroqFailed_Refund(rq, paper_id, adm, c, get_failed) ==
    /\ guest_summary_usage' = guest_summary_usage
    /\ user_summary_usage' = user_summary_usage
    /\ firebase_initialized' = c.fi
    /\ resp' = Response(rq, 200, "generation_error", -1, None, FALSE, paper_id,
                        "failed", c.outcome, "skipped")
    /\ store_failed' = (store_failed \/ get_failed)
    /\ UNCHANGED <<clock, summaries, generated>>

\* the failure path storing its error text as the summary
SummarizeGroqFailed_WritesCache(rq, paper_id, adm, c, get_failed) ==
    /\ guest_summary_usage' = adm.gu
    /\ user_summary_usage' = adm.uu
    /\ firebase_initialized' = c.fi
    /\ resp' = Response(rq, 200, "generation_error", -1, None, FALSE, paper_id,
                        "failed", c.outcome, "skipped")
    /\ store_failed' = (store_failed \/ get_failed)
    /\ summaries' = set_summary_cache(paper_id, "failed", c.fi, summaries, TRUE, TRUE).docs
    /\ UNCHANGED <<clock, generated>>

\* lines 317-319: the completion call raised
SummarizeGroqFailed(rq, paper_id, adm, c, get_failed) ==
    /\ guest_summary_usage' = adm.gu
    /\ user_summary_usage' = adm.uu
    /\ firebase_initialized' = c.fi
    /\ resp' = Response(rq, 200, "generation_error", -1, None, FALSE, paper_id,
                        "failed", c.outcome, "skipped")
    /\ store_failed' = (store_failed \/ get_failed)
    /\ UNCHANGED <<clock, summaries, generated>>

\* lines 301-316: the completion call returned summary
SummarizeGenerated(rq, paper_id, adm, c, get_failed, summary, init_set, set_ok, d) ==
    LET id == get_user_from_request(rq.auth)
        w == set_summary_cache(paper_id, summary, c.fi, summaries, init_set, set_ok)
        r == get_remaining_summaries(id[1], id[2], rq.ip, clock + d, adm.gu, adm.uu)
        set_failed == StoreFailure(c.fi, init_set, set_ok)
    IN /\ clock + d <= MaxClock
       /\ clock' = clock + d
       /\ guest_summary_usage' = r.gu
       /\ user_summary_usage' = r.uu
       /\ firebase_initialized' = w.fi
       /\ summaries' = w.docs
       \* a raise of set_summary_cache is caught at line 307
       /\ resp' = Response(rq, 200, "generated", r.remaining, summary, FALSE, paper_id,
                           summary, c.outcome, IF w.raised THEN "raised" ELSE w.outcome)
       /\ store_failed' = (store_failed \/ get_failed \/ set_failed)
       /\ generated' = IF ~store_failed /\ ~get_failed /\ ~set_failed
                          /\ generated[paper_id] = None
                       THEN [generated EXCEPT ![paper_id] = summary]
                       ELSE generated

\* line 253 is outside every try: a raise of get_summary_cache ends the handler
SummarizeUnhandled(rq, paper_id, adm, c) ==
    /\ guest_summary_usage' = adm.gu
    /\ user_summary_usage' = adm.uu
    /\ firebase_initialized' = c.fi
    /\ resp' = Response(rq, 500, "unhandled", -1, None, FALSE, paper_id,
                        "not_called", "raised", "skipped")
    /\ store_failed' = TRUE
    /\ UNCHANGED <<clock, summaries, generated>>

\* lines 252-319: admitted, abstract present: the cache lookup, then on a miss
\* the completion call, the cache write and the remaining count read at now + d
SummarizeLookup(rq, paper_id, req_abstract, store, groq) ==
    LET id == get_user_from_request(rq.auth)
        adm == CheckAndUpdate(id[1], id[2], rq.ip, clock, guest_summary_usage, user_summary_usage)
    IN /\ adm.admitted
       /\ ~(req_abstract = <<>> \/ Strip(req_abstract) = <<>>)
       /\ \E init_get \in InitOutcomes(firebase_initialized, store) :
          \E get_ok \in OpOutcomes(firebase_initialized \/ init_get, store) :
             LET c == get_summary_cache(paper_id, firebase_initialized, summaries,
                                        init_get, get_ok)
                 get_failed == StoreFailure(firebase_initialized, init_get, get_ok)
             IN IF c.raised
                THEN SummarizeUnhandled(rq, paper_id, adm, c)
                ELSE IF c.result.exists
                THEN \E d \in {0, TickSize} :
                        SummarizeCached(rq, paper_id, adm, c, get_failed, d)
                ELSE \/ /\ "fail" \in groq
                        /\ SummarizeGroqFailed(rq, paper_id, adm, c, get_failed)
                     \/ \E summary \in groq \ {"fail"}, init_set \in InitOutcomes(c.fi, store),
                           d \in {0, TickSize} :
                        \E set_ok \in OpOutcomes(c.fi \/ init_set, store) :
                           SummarizeGenerated(rq, paper_id, adm, c, get_failed,
                                              summary, init_set, set_ok, d)

\* POST /summarize-paper.  The body is drawn from papers x abstracts, the outcomes
\* of the store calls from store (TRUE: the call goes through) and the outcome of
\* the completion call from groq (a summary, or "fail")
summarize_paper(rq, papers, abstracts, store, groq) ==
    /\ rq.ep = "summarize"
    /\ Starts(rq)
    /\ UNCHANGED harness
    /\ \E paper_id \in papers, req_abstract \in abstracts :
          /\ abstract' = req_abstract
          /\ \/ \E d \in {0, TickSize} : SummarizeRejected(rq, d)
             \/ SummarizeNoAbstract(rq, paper_id, req_abstract)
             \/ SummarizeLookup(rq, paper_id, req_abstract, store, groq)
    /\ was_exhausted' = was_exhausted \cup
          {b \in {Bucket(rq)} :
              Len(BucketUsage(b, guest_summary_usage', user_summary_usage')) >= BucketLimit(b)
              \/ resp'.status = 429}

----------------------------------------------------------------------------
(* The specification of the service *)

Fresh ==
    /\ guest_summary_usage = [ip \in IPs |-> <<>>]
    /\ user_summary_usage = [u \in Users |-> <<>>]

\* the ledger after PreUsedGuest / PreUsedUser summarize requests at time 0
Warm ==
    /\ guest_summary_usage = [ip \in IPs |-> [i \in 1..PreUsedGuest |-> 0]]
    /\ user_summary_usage = [u \in Users |-> [i \in 1..PreUsedUser |-> 0]]

NoCall == [op |-> None, id |-> <<>>, result |-> NoDoc, failed |-> FALSE]

\* no search or trending request handled yet
NoSearch ==
    [ep |-> None, query |-> <<>>, api |-> "not_called", status |-> 0, shape |-> None,
     results |-> <<>>]

\* no handler holds the event loop
Idle == [state |-> "idle", call |-> None, ep |-> None, auth |-> <<"none">>, ip |-> None]

\* the state once main.py and firebase_service.py are imported
ServiceInit ==
    /\ clock = 0
    /\ firebase_initialized = FALSE
    /\ summaries = [k \in DocKeys |-> NoDoc]
    /\ inflight = [k \in ReqKinds |-> 0]
    /\ resp = NoResp
    /\ nreq = 0
    /\ generated = [p \in PaperIds |-> None]
    /\ store_failed = FALSE
    /\ was_exhausted = {}
    /\ arrived_below = [k \in ReqKinds |-> FALSE]
    /\ cache_call = NoCall
    /\ last_set = [p \in PaperIds |-> None]
    /\ abstract = <<>>
    /\ search = NoSearch
    /\ loop = Idle

Init ==
    /\ ServiceInit
    /\ Fresh \/ Warm
    /\ san = [input |-> <<>>, output |-> <<>>, done |-> FALSE]

GroqOutcomes == Summaries \cup {"fail"}

\* The service, one request at a time: every request, every outcome of every
\* external call
Next ==
    \/ \E rq \in MainKinds : Arrive(rq, 1, MaxServiceRequests)
    \/ Tick
    \/ \E rq \in MainKinds : get_summary_quota(rq)
    \/ \E rq \in MainKinds : summarize_paper(rq, PaperIds, Abstracts, BOOLEAN, GroqOutcomes)

Spec == Init /\ [][Next]_vars

\* The quota ledger: every request kind over a longer run, one paper, the store
\* working
LedgerNext ==
    \/ \E rq \in MainKinds : Arrive(rq, 1, MaxRequests)
    \/ Tick
    \/ \E rq \in MainKinds : get_summary_quota(rq)
    \/ \E rq \in MainKinds : summarize_paper(rq, {UrlId}, Abstracts, {TRUE}, {"S1", "fail"})

LedgerSpec == Init /\ [][LedgerNext]_vars

\* The cache: summarize requests with an abstract, every paper, every outcome of
\* the store and completion calls
CacheKinds == {k \in SummarizeKinds \cap MainKinds : k.auth = <<"none">>}

CacheNext ==
    \/ \E rq \in CacheKinds : Arrive(rq, 1, MaxRequests)
    \/ \E rq \in CacheKinds :
          summarize_paper(rq, PaperIds, {<<"t","e","x","t">>}, BOOLEAN, GroqOutcomes)

CacheSpec == Init /\ [][CacheNext]_vars

\* Concurrent summarize requests (bodies without an abstract, which end right
\* after the rate-limit check)
RaceKinds == SummarizeKinds \cap MainKinds

RaceNext ==
    \/ \E rq \in RaceKinds : Arrive(rq, MaxInflight, MaxRequests)
    \/ Tick
    \/ \E rq \in RaceKinds : summarize_paper(rq, {PlainId}, {<<>>, <<" ">>}, {TRUE}, {"fail"})

RaceSpec == Init /\ [][RaceNext]_vars

\* Several clients: the requests of two addresses and two accounts, one at a time
FrameKinds == {k \in ReqKinds : k.auth # <<"bad">>}

FrameNext ==
    \/ \E rq \in FrameKinds : Arrive(rq, 1, MaxFrameRequests)
    \/ Tick
    \/ \E rq \in FrameKinds : get_summary_quota(rq)
    \/ \E rq \in FrameKinds : summarize_paper(rq, {PlainId}, {<<>>}, {TRUE}, {"fail"})

FrameSpec == Init /\ [][FrameNext]_vars

----------------------------------------------------------------------------
(* main.py: the paper search gateway *)

\* the query parameter of GET /search-papers
Queries == {<<>>, <<" ">>, <<" ", "\t">>, <<"q">>, <<" ", "q", " ">>}

\* a work of the search API: with an inverted-index abstract, with a plain
\* abstract, with neither
Works == {"abstract_inverted_index", "abstract", "no_abstract"}

\* response.json()["results"], up to MaxResults works
ResultLists == UNION {[1..n -> Works] : n \in 0..MaxResults}

\* What requests.get(...) and the reading of its response come to:
\*   network_error  requests.get raises (ConnectionError, Timeout)
\*   http_error     raise_for_status() raises HTTPError
\*   not_json       response.json() raises a decode error
\*   not_object     the body is JSON but no object (an array, a string, null)
\*   no_results     the body is an object without the key "results"
\*   ok             the body is an object whose "results" is a list of works
ApiFailures == {"network_error", "http_error", "not_json", "not_object", "no_results"}

ApiOutcomes ==
    {[kind |-> k, results |-> <<>>] : k \in ApiFailures}
        \cup {[kind |-> "ok", results |-> r] : r \in ResultLists}

\* line 190: the works that carry an abstract
HasAbstract(paper) == paper \in {"abstract_inverted_index", "abstract"}

\* the response of a search or trending handler; status 500: the handler raised
SearchResponse(ep, query, api, status, shape, results) ==
    [ep |-> ep, query |-> query, api |-> api, status |-> status, shape |-> shape,
     results |-> results]

\* GET /search-papers.  decode_caught: the decode error of response.json() is a
\* requests.RequestException (requests >= 2.27) or a plain ValueError (older)
search_papers(query, api, decode_caught) ==
    /\ nreq < MaxRequests
    /\ nreq' = nreq + 1
    /\ search' =
         IF Strip(query) = <<>>
         THEN SearchResponse("search", query, "not_called", 200, "results_object", <<>>)
         ELSE IF api.kind \in {"network_error", "http_error"}
              \/ (api.kind = "not_json" /\ decode_caught)
         THEN SearchResponse("search", query, api.kind, 200, "error_object", <<>>)
         ELSE IF api.kind = "ok"
         THEN SearchResponse("search", query, api.kind, 200, "array",
                             SelectSeq(api.results, HasAbstract))
         \* KeyError / TypeError / ValueError: not a requests.RequestException
         ELSE SearchResponse("search", query, api.kind, 500, None, <<>>)
    /\ UNCHANGED <<clock, guest_summary_usage, user_summary_usage, firebase_initialized,
                   summaries, inflight, resp, generated, store_failed, was_exhausted,
                   arrived_below, san, cache_call, last_set, abstract, loop>>

\* GET /get-trending
get_trending(api, decode_caught) ==
    /\ nreq < MaxRequests
    /\ nreq' = nreq + 1
    /\ search' =
         IF api.kind \in {"network_error", "http_error"}
            \/ (api.kind = "not_json" /\ decode_caught)
         THEN SearchResponse("trending", <<>>, api.kind, 200, "error_object", <<>>)
         ELSE IF api.kind = "ok"
         THEN SearchResponse("trending", <<>>, api.kind, 200, "array", api.results)
         \* .get("results", []) on an object without the key
         ELSE IF api.kind = "no_results"
         THEN SearchResponse("trending", <<>>, api.kind, 200, "array", <<>>)
         \* AttributeError / ValueError: not a requests.RequestException
         ELSE SearchResponse("trending", <<>>, api.kind, 500, None, <<>>)
    /\ UNCHANGED <<clock, guest_summary_usage, user_summary_usage, firebase_initialized,
                   summaries, inflight, resp, generated, store_failed, was_exhausted,
                   arrived_below, san, cache_call, last_set, abstract, loop>>

\* the decode error is caught or not, where the outcome is a decode error
DecodeCaught(api) == IF api.kind = "not_json" THEN BOOLEAN ELSE {TRUE}

SearchNext ==
    \/ \E query \in Queries, api \in ApiOutcomes :
          \E decode_caught \in DecodeCaught(api) : search_papers(query, api, decode_caught)
    \/ \E api \in ApiOutcomes :
          \E decode_caught \in DecodeCaught(api) : get_trending(api, decode_caught)

SearchSpec == Init /\ [][SearchNext]_vars

----------------------------------------------------------------------------
(* The event loop.  Every handler is an async def whose external calls
   (auth.verify_id_token, requests.get, ai_client.chat.completions.create, the
   Firestore client) are synchronous: the handler never yields, and while one
   of its calls has not returned the loop runs no other handler. *)

\* the request of kind rq holds the loop inside the external call named call
Held(rq, call) ==
    [state |-> "hung", call |-> call, ep |-> rq.ep, auth |-> rq.auth, ip |-> rq.ip]

\* a handler is started and one of its external calls never returns: the token
\* verification of line 63, or the completion call of line 296 (which comes
\* after the admission of lines 203-239 and the cache lookup of line 253)
ExternalCallHangs(rq) ==
    /\ loop.state = "idle"
    /\ inflight[rq] > 0
    /\ \/ /\ rq.auth[1] \in {"ok", "bad"}
          /\ loop' = Held(rq, "verify_id_token")
          /\ UNCHANGED <<guest_summary_usage, user_summary_usage, firebase_initialized>>
       \/ /\ rq.ep = "summarize"
          /\ LET id == get_user_from_request(rq.auth)
                 adm == CheckAndUpdate(id[1], id[2], rq.ip, clock,
                                       guest_summary_usage, user_summary_usage)
                 c == get_summary_cache(PlainId, firebase_initialized, summaries, TRUE, TRUE)
             IN /\ adm.admitted
                /\ ~c.result.exists
                /\ guest_summary_usage' = adm.gu
                /\ user_summary_usage' = adm.uu
                /\ firebase_initialized' = c.fi
                /\ loop' = Held(rq, "completion")
    /\ UNCHANGED <<clock, summaries, inflight, resp, nreq, generated, store_failed,
                   was_exhausted, arrived_below, san, cache_call, last_set, abstract, search>>

\* the loop runs the handler of a waiting request, all of whose calls return
Serve(rq) ==
    /\ loop.state = "idle"
    /\ \/ get_summary_quota(rq)
       \/ summarize_paper(rq, {PlainId}, {<<"t","e","x","t">>}, {TRUE}, {"S1", "fail"})

LoopNext ==
    \/ \E rq \in MainKinds : Arrive(rq, MaxInflight, MaxRequests)
    \/ \E rq \in MainKinds : Serve(rq)
    \/ \E rq \in MainKinds : ExternalCallHangs(rq)

\* the loop does not idle while a request waits
LoopSpec == Init /\ [][LoopNext]_vars /\ WF_vars(\E rq \in MainKinds : Serve(rq))

----------------------------------------------------------------------------
(* The sanitizer applied to enumerated inputs *)

SanAlphabet == {"W", "_"} \cup ForbiddenChars

ShortIds == UNION {[1..n -> SanAlphabet] : n \in 0..MaxIdLen}

Repeat(ch, n) == [i \in 1..n |-> ch]

LongIds == {Repeat("a", MAX_KEY_LEN), Repeat("a", MAX_KEY_LEN + 1), Repeat(".", MAX_KEY_LEN + 1),
            Repeat("a", 2 * MAX_KEY_LEN)}

W123 == <<"W","1","2","3">>

SanInputs ==
    LET plain == ShortIds \cup LongIds \cup {W123, <<"w","o","r","k","s","/","W","1">>}
    IN plain \cup {OpenAlexPrefix \o x : x \in plain}

SanInit ==
    /\ ServiceInit
    /\ Fresh
    /\ san \in {[input |-> x, output |-> <<>>, done |-> FALSE] : x \in SanInputs}

Sanitize ==
    /\ ~san.done
    /\ san' = [san EXCEPT !.output = sanitize_paper_id(san.input), !.done = TRUE]
    /\ UNCHANGED <<clock, guest_summary_usage, user_summary_usage, firebase_initialized,
                   summaries, inflight, resp, nreq, generated, store_failed,
                   was_exhausted, arrived_below, cache_call, last_set, abstract, search, loop>>

SanNext == Sanitize

SanSpec == SanInit /\ [][SanNext]_vars

----------------------------------------------------------------------------
(* The cache functions called directly *)

SameKey(p, q) == sanitize_paper_id(p) = sanitize_paper_id(q)

CacheSet(paper_id, summary, init_ok, op_ok) ==
    LET w == set_summary_cache(paper_id, summary, firebase_initialized, summaries,
                               init_ok, op_ok)
        failed == StoreFailure(firebase_initialized, init_ok, op_ok)
    IN /\ nreq < MaxCacheCalls
       /\ nreq' = nreq + 1
       /\ firebase_initialized' = w.fi
       /\ summaries' = w.docs
       /\ cache_call' = [op |-> IF w.raised THEN "set_raised" ELSE "set", id |-> paper_id,
                         result |-> NoDoc, failed |-> failed]
       /\ store_failed' = (store_failed \/ failed)
       /\ last_set' = [p \in PaperIds |->
                         IF p = paper_id THEN (IF failed THEN None ELSE summary)
                         ELSE IF SameKey(p, paper_id) /\ w.outcome = "written" THEN None
                         ELSE last_set[p]]
       /\ UNCHANGED <<clock, guest_summary_usage, user_summary_usage, inflight, resp,
                      generated, was_exhausted, arrived_below, san, abstract, search, loop>>

CacheGet(paper_id, init_ok, op_ok) ==
    LET c == get_summary_cache(paper_id, firebase_initialized, summaries, init_ok, op_ok)
        failed == StoreFailure(firebase_initialized, init_ok, op_ok)
    IN /\ nreq < MaxCacheCalls
       /\ nreq' = nreq + 1
       /\ firebase_initialized' = c.fi
       /\ cache_call' = [op |-> IF c.raised THEN "get_raised" ELSE "get", id |-> paper_id,
                         result |-> c.result, failed |-> failed]
       /\ store_failed' = (store_failed \/ failed)
       /\ UNCHANGED <<clock, guest_summary_usage, user_summary_usage, summaries, inflight,
                      resp, generated, was_exhausted, arrived_below, san, last_set, abstract,
                      search, loop>>

StoreNext ==
    \/ \E paper_id \in PaperIds, summary \in Summaries :
          \E init_ok \in InitOutcomes(firebase_initialized, BOOLEAN) :
          \E op_ok \in OpOutcomes(firebase_initialized \/ init_ok, BOOLEAN) :
             CacheSet(paper_id, summary, init_ok, op_ok)
    \/ \E paper_id \in PaperIds :
          \E init_ok \in InitOutcomes(firebase_initialized, BOOLEAN) :
          \E op_ok \in OpOutcomes(firebase_initialized \/ init_ok, BOOLEAN) :
             CacheGet(paper_id, init_ok, op_ok)

StoreSpec == Init /\ [][StoreNext]_vars

----------------------------------------------------------------------------
(* The claims *)

\* the handler of a request of kind rq runs in this step
Handled(rq) == inflight'[rq] = inflight[rq] - 1

UsageNow(rq) == BucketUsage(Bucket(rq), guest_summary_usage, user_summary_usage)
UsageNext(rq) == BucketUsage(Bucket(rq), guest_summary_usage', user_summary_usage')

\* the timestamps of usage that are inside the window at time now, in order
InWindow(usage, now) ==
    SelectSeq(usage, LAMBDA ts : ts > now - WINDOW_SECONDS)

\* C1: once LIMIT timestamps of an identity (5 anonymous, 50 authenticated) are
\* inside the window, the next summarize request of the identity is rejected with
\* 429, appends no timestamp, and reports remaining 0 when the remaining count is
\* read while those timestamps are still inside the window.
C1_AtLimitRejected ==
    [][\A rq \in SummarizeKinds :
          (Handled(rq) /\ CountInWindow(UsageNow(rq), clock) >= BucketLimit(Bucket(rq)))
          => /\ resp'.status = 429
             /\ UsageNext(rq) = InWindow(UsageNow(rq), clock')
             /\ (CountInWindow(UsageNow(rq), clock') >= BucketLimit(Bucket(rq))
                    => resp'.remaining = 0)]_vars

\* an authenticated user holding USER_LIMIT timestamps has been rejected with remaining 0
C1_Witness ==
    /\ resp.ep = "summarize"
    /\ resp.auth = <<"ok", "u1">>
    /\ resp.status = 429
    /\ resp.remaining = 0
    /\ CountInWindow(user_summary_usage["u1"], clock) = USER_LIMIT

\* every timestamp of usage is at least WINDOW_SECONDS old at time now
AllExpired(usage, now) == \A i \in 1..Len(usage) : now - usage[i] >= WINDOW_SECONDS

\* C2: once WINDOW_SECONDS have elapsed since the last admitted request of an
\* identity (so since every timestamp it holds), a quota request of the identity
\* reads the full LIMIT and its next summarize request is admitted.
C2_WindowElapsedRestores ==
    [][\A rq \in ReqKinds :
          (Handled(rq) /\ AllExpired(UsageNow(rq), clock))
          => /\ rq.ep = "quota" => (resp'.remaining = BucketLimit(Bucket(rq))
                                    /\ UsageNext(rq) = <<>>)
             /\ rq.ep = "summarize" => (resp'.status # 429 /\ UsageNext(rq) = <<clock>>)]_vars

\* an anonymous address that was at its limit reads the full limit after the window
C2_Witness ==
    /\ resp.ep = "quota"
    /\ Bucket(resp) = <<"guest", "ip1">>
    /\ <<"guest", "ip1">> \in was_exhausted
    /\ resp.remaining = GUEST_LIMIT
    /\ clock >= WINDOW_SECONDS

\* C3: every rate-limit rejection reports a remaining count of 0, whatever the
\* clock reads when get_remaining_summaries computes it.
C3_RejectionReportsZero ==
    resp.status = 429 => resp.remaining = 0

\* a summarize handler that got as far as the cache lookup runs in this step
LookupStep ==
    /\ nreq' = nreq + 1
    /\ resp'.ep = "summarize"
    /\ resp'.kind \in {"cached", "generated", "generation_error", "unhandled"}

\* C4: with the store working throughout, once a summarize request for paper_id P
\* has returned a generated summary S, every later admitted summarize request for
\* P with an abstract returns cached = true and S, without a completion call.
C4_RepeatIsCached ==
    [][(LookupStep /\ ~store_failed' /\ generated[resp'.paper_id] # None)
          => /\ resp'.kind = "cached"
             /\ resp'.cached
             /\ resp'.summary = generated[resp'.paper_id]
             /\ resp'.groq = "not_called"]_vars

\* C5: with the store working, get_summary_cache(id) after set_summary_cache(id, S),
\* with no write to the same sanitized key in between, returns a record whose
\* summary is S and whose original_paper_id is id.
C5_SetThenGet ==
    (cache_call.op = "get" /\ ~cache_call.failed /\ last_set[cache_call.id] # None)
    => /\ cache_call.result.exists
       /\ cache_call.result.summary = last_set[cache_call.id]
       /\ cache_call.result.original_paper_id = cache_call.id

\* C6: when the store is unavailable or a store call fails, the lookup yields no
\* cache and the write does not raise: the request ends with HTTP 200, and when
\* the completion call succeeded it returns the generated summary, cached = false.
C6_StoreFailureIsSwallowed ==
    (resp.ep = "summarize"
       /\ (resp.cache_get \in {"unavailable", "error", "raised"}
           \/ resp.cache_set \in {"unavailable", "error", "raised"}))
    => /\ resp.status = 200
       /\ resp.kind \in {"generated", "generation_error"}
       /\ resp.cache_get # "raised"
       /\ resp.cache_set # "raised"
       /\ resp.groq \in Summaries
            => (resp.kind = "generated" /\ ~resp.cached /\ resp.summary = resp.groq)
       /\ resp.kind = "generated" => resp.groq \in Summaries

\* the store was unavailable at the lookup, the write failed, the summary came back
C6_Witness ==
    /\ resp.ep = "summarize"
    /\ resp.cache_get = "unavailable"
    /\ resp.cache_set = "error"
    /\ resp.kind = "generated"
    /\ resp.summary = "S2"
    /\ ~resp.cached

\* C7: sanitize_paper_id returns, for every input, a string that is not empty, is
\* at most 1000 characters long and holds none of / \ . # [ ] * ?
C7_SanitizedIsSafe ==
    san.done
    => /\ san.output # <<>>
       /\ Len(san.output) <= MAX_KEY_LEN
       /\ \A i \in 1..Len(san.output) : san.output[i] \notin ForbiddenChars

\* C8: for an OpenAlex URL that ends in a path segment, sanitize_paper_id returns
\* exactly the trailing segment; "https://openalex.org/W123" gives "W123".
C8_UrlGivesTrailingSegment ==
    (san.done /\ startswith(san.input, OpenAlexPrefix) /\ san.input[Len(san.input)] # "/")
    => /\ san.output # <<>>
       /\ \A i \in 1..Len(san.output) : san.output[i] # "/"
       /\ Len(san.output) < Len(san.input)
       /\ san.input[Len(san.input) - Len(san.output)] = "/"
       /\ SubSeq(san.input, Len(san.input) - Len(san.output) + 1, Len(san.input)) = san.output
       /\ san.input = OpenAlexPrefix \o W123 => san.output = W123

C8_Witness ==
    /\ san.done
    /\ san.input = OpenAlexPrefix \o W123
    /\ san.output = W123

\* C9: when the completion call fails the request ends with the generation error
\* payload, the timestamp appended at admission stays (the identity's remaining
\* count at that time is one lower than before), and the cache is not written.
C9_FailedGenerationStillCounts ==
    [][\A rq \in SummarizeKinds :
          (Handled(rq) /\ resp'.kind = "generation_error")
          => /\ resp'.status = 200
             /\ resp'.groq = "failed"
             /\ UsageNext(rq) = Append(InWindow(UsageNow(rq), clock), clock)
             /\ CountInWindow(UsageNext(rq), clock) = CountInWindow(UsageNow(rq), clock) + 1
             /\ CountInWindow(UsageNext(rq), clock) <= BucketLimit(Bucket(rq))
             /\ summaries' = summaries]_vars

C9_Witness ==
    /\ resp.kind = "generation_error"
    /\ resp.auth = <<"none">>
    /\ guest_summary_usage["ip1"] = <<0, 0, 0, clock>>
    /\ \A k \in DocKeys : ~summaries[k].exists

\* C10: summarize handlers contain no suspension point, so the requests of one
\* identity that are in flight together pass the limit check and the append one
\* after the other: no identity's sequence ever holds more than LIMIT timestamps.
C10_NeverOverLimit ==
    \A b \in Buckets :
        Len(BucketUsage(b, guest_summary_usage, user_summary_usage)) <= BucketLimit(b)

\* two requests of one identity were in flight while its count was below the
\* limit; the one handled second was rejected and the sequence holds LIMIT
C10_Witness ==
    /\ resp.ep = "summarize"
    /\ resp.status = 429
    /\ resp.below_on_arrival
    /\ Len(BucketUsage(Bucket(resp), guest_summary_usage, user_summary_usage))
          = BucketLimit(Bucket(resp))

\* C10 as stated: every request that found a sub-limit count when it reached
\* the server goes on to append, whatever was admitted while it waited.
C10_BothAppend ==
    [][\A rq \in SummarizeKinds :
          (Handled(rq) /\ arrived_below[rq])
          => /\ resp'.status # 429
             /\ Len(UsageNext(rq)) = CountInWindow(UsageNow(rq), clock) + 1]_vars

\* the requests in flight that are charged to identity b
InflightOf(b) ==
    Cardinality({<<k, i>> \in ReqKinds \X (1..(MaxInflight + 1)) :
                    Bucket(k) = b /\ i <= inflight[k]})

\* C11: with up to N summarize requests of one identity in flight together, the
\* identity never has more than LIMIT + (N - 1) timestamps inside the window.
C11_OverAdmissionBounded ==
    \A b \in Buckets : \A N \in 1..MaxInflight :
        InflightOf(b) <= N
        => CountInWindow(BucketUsage(b, guest_summary_usage, user_summary_usage), clock)
              <= BucketLimit(b) + (N - 1)

\* two requests of one address were in flight together, the first was admitted
\* and took the last unit, the second still waits
C11_Witness ==
    /\ InflightOf(<<"guest", "ip1">>) = 1
    /\ \E rq \in RaceKinds : inflight[rq] = 1 /\ arrived_below[rq]
    /\ resp.ep = "summarize"
    /\ resp.status = 200
    /\ CountInWindow(guest_summary_usage["ip1"], clock) = GUEST_LIMIT

\* a quota request without credentials: its handler makes no external call
QuotaNoCall == [ep |-> "quota", auth |-> <<"none">>, ip |-> "ip1"]

\* C12: a request whose own external calls return is eventually answered, also
\* when the external call of another request never returns.
C12_OthersProceed == (inflight[QuotaNoCall] > 0) ~> (inflight[QuotaNoCall] = 0)

\* C13: whatever an external call comes to, no handler raises: the search and
\* trending handlers answer with HTTP 200, and a failure of the search API is
\* answered with the {error} payload.
C13_NoHandlerRaises ==
    search.ep # None
    => /\ search.status = 200
       /\ search.api \in ApiFailures \ {"no_results"} => search.shape = "error_object"

\* C15: a search whose query is empty or whitespace-only makes no call to the
\* search API and answers with an empty list, in the array shape of a search
\* that matched nothing.
C15_EmptyQueryShortCircuits ==
    (search.ep = "search" /\ Strip(search.query) = <<>>)
    => /\ search.api = "not_called"
       /\ search.status = 200
       /\ search.results = <<>>
       /\ search.shape = "array"

\* the requests whose bearer credential fails verification
BadKinds == {k \in ReqKinds : k.auth = <<"bad">>}

\* C14: a request whose bearer credential fails verification is checked against
\* and charged to the anonymous bucket of its address (LIMIT = 5), changes no
\* authenticated bucket, and is answered like any other request.
C14_FailedCredentialIsAnonymous ==
    [][\A rq \in BadKinds :
          Handled(rq)
          => LET before == guest_summary_usage[rq.ip]
                 n == CountInWindow(before, clock)
                 charged == InWindow(Append(InWindow(before, clock), clock), clock')
             IN /\ user_summary_usage' = user_summary_usage
                /\ \A ip \in IPs \ {rq.ip} : guest_summary_usage'[ip] = guest_summary_usage[ip]
                /\ resp'.status \in {200, 429}
                /\ resp'.kind \in {"quota", "rate_limited", "validation_error", "cached",
                                   "generated", "generation_error"}
                /\ rq.ep = "summarize"
                     => /\ (resp'.status = 429) <=> (n >= GUEST_LIMIT)
                        /\ resp'.status = 200 => guest_summary_usage'[rq.ip] = charged
                        /\ resp'.status = 429
                             => guest_summary_usage'[rq.ip] = InWindow(before, clock')
                /\ rq.ep = "quota"
                     => /\ resp'.remaining = Max(0, GUEST_LIMIT - n)
                        /\ guest_summary_usage'[rq.ip] = InWindow(before, clock)]_vars

\* a summarize request with a failing credential was rejected at the anonymous
\* limit of its address
C14_Witness ==
    /\ resp.ep = "summarize"
    /\ resp.auth = <<"bad">>
    /\ resp.status = 429
    /\ CountInWindow(guest_summary_usage["ip1"], clock) = GUEST_LIMIT
    /\ Len(user_summary_usage["u1"]) < USER_LIMIT

\* the timestamps of usage that are not older than now - WINDOW_SECONDS
NotOlder(usage, now) == SelectSeq(usage, LAMBDA ts : ts >= now - WINDOW_SECONDS)

\* C16: the remaining count removes exactly the timestamps older than
\* now - WINDOW_SECONDS (one that is exactly WINDOW_SECONDS old is kept and
\* counted), appends nothing, and is max(0, LIMIT - kept), within 0..LIMIT.
C16_RemainingPrunesOlder ==
    [][\A rq \in ReqKinds :
          (Handled(rq) /\ rq.ep = "quota")
          => /\ UsageNext(rq) = NotOlder(UsageNow(rq), clock)
             /\ resp'.remaining = Max(0, BucketLimit(Bucket(rq)) - Len(UsageNext(rq)))
             /\ resp'.remaining \in 0..BucketLimit(Bucket(rq))]_vars

\* C16 (amended): the remaining count keeps exactly the timestamps less than
\* WINDOW_SECONDS old (one that is exactly WINDOW_SECONDS old is removed),
\* appends nothing, and is max(0, LIMIT - kept), within 0..LIMIT.
C16_RemainingPrunesAtBoundary ==
    [][\A rq \in ReqKinds :
          (Handled(rq) /\ rq.ep = "quota")
          => /\ UsageNext(rq) = InWindow(UsageNow(rq), clock)
             /\ \A i \in 1..Len(UsageNext(rq)) : clock - UsageNext(rq)[i] < WINDOW_SECONDS
             /\ resp'.remaining = Max(0, BucketLimit(Bucket(rq)) - Len(UsageNext(rq)))
             /\ resp'.remaining \in 0..BucketLimit(Bucket(rq))]_vars

\* an account that had used its 50 units reads 50 again at the moment its
\* timestamps are exactly WINDOW_SECONDS old
C16_Witness ==
    /\ resp.ep = "quota"
    /\ resp.auth = <<"ok", "u1">>
    /\ <<"user", "u1">> \in was_exhausted
    /\ clock = WINDOW_SECONDS
    /\ resp.remaining = USER_LIMIT
    /\ user_summary_usage["u1"] = <<>>

\* the abstract of a request body is empty or whitespace-only
Blank(s) == s = <<>> \/ Strip(s) = <<>>

\* C17: admission precedes validation.  A summarize request without an abstract
\* is rejected with 429 when its identity is at the limit; below the limit it
\* gets the validation error after its timestamp has been appended, with no
\* cache lookup, no completion call and no cache write.
C17_AdmissionBeforeValidation ==
    [][\A rq \in SummarizeKinds :
          (Handled(rq) /\ Blank(abstract'))
          => LET n == CountInWindow(UsageNow(rq), clock)
             IN /\ n >= BucketLimit(Bucket(rq))
                     => /\ resp'.status = 429
                        /\ resp'.kind = "rate_limited"
                /\ n < BucketLimit(Bucket(rq))
                     => /\ resp'.status = 200
                        /\ resp'.kind = "validation_error"
                        /\ UsageNext(rq) = Append(InWindow(UsageNow(rq), clock), clock)
                /\ resp'.cache_get = "skipped"
                /\ resp'.cache_set = "skipped"
                /\ resp'.groq = "not_called"
                /\ summaries' = summaries
                /\ firebase_initialized' = firebase_initialized]_vars

\* a whitespace-only abstract from an address at its limit: 429, and before it
\* the validation error took the last unit
C17_Witness ==
    /\ resp.ep = "summarize"
    /\ resp.status = 429
    /\ abstract = <<" ">>
    /\ Len(guest_summary_usage["ip1"]) = GUEST_LIMIT
    /\ ~firebase_initialized

\* C18: a successful summarize response (cache hit or fresh generation) carries
\* remaining_summaries = max(0, LIMIT - k), k being the identity's timestamps
\* inside the window at response time, the one of this request included; the
\* count appends nothing, so the request costs exactly one unit.
C18_RemainingInSuccess ==
    [][\A rq \in SummarizeKinds :
          (Handled(rq) /\ resp'.kind \in {"cached", "generated"})
          => LET charged == Append(InWindow(UsageNow(rq), clock), clock)
                 k == CountInWindow(charged, clock')
             IN /\ resp'.status = 200
                /\ resp'.remaining = Max(0, BucketLimit(Bucket(rq)) - k)
                /\ UsageNext(rq) = InWindow(charged, clock')
                /\ Len(UsageNext(rq)) = k
                /\ UsageNext(rq)[k] = clock
                /\ resp'.cached <=> resp'.kind = "cached"]_vars

\* a cache hit took the last unit of an address
C18_Witness ==
    /\ resp.ep = "summarize"
    /\ resp.kind = "cached"
    /\ resp.cached
    /\ resp.auth = <<"none">>
    /\ resp.remaining = 0
    /\ Len(guest_summary_usage["ip1"]) = GUEST_LIMIT

\* C19: the completion API is called only for a request that was admitted, has
\* an abstract and missed the cache, and its one outcome ends the request; the
\* cache changes only when a generation succeeded, under the sanitized key of
\* that request, so rejected, invalid and failed requests leave it unchanged.
C19_GenerationAndCacheWrites ==
    [][\A rq \in SummarizeKinds :
          Handled(rq)
          => /\ resp'.groq # "not_called"
                  => /\ resp'.status = 200
                     /\ CountInWindow(UsageNow(rq), clock) < BucketLimit(Bucket(rq))
                     /\ ~Blank(abstract')
                     /\ resp'.cache_get \in {"miss", "unavailable", "error"}
                     /\ resp'.kind \in {"generated", "generation_error"}
                     /\ resp'.kind = "generated" <=> resp'.groq \in Summaries
             /\ resp'.kind \in {"rate_limited", "validation_error", "cached"}
                  => resp'.groq = "not_called"
             /\ resp'.kind # "generated" => summaries' = summaries
             /\ \A key \in DocKeys :
                   summaries'[key] # summaries[key]
                   => /\ key = sanitize_paper_id(resp'.paper_id)
                      /\ summaries'[key] = Document(resp'.groq, resp'.paper_id)]_vars

\* a generation succeeded and its summary is in the cache under the work id
C19_Witness ==
    /\ resp.ep = "summarize"
    /\ resp.kind = "generated"
    /\ resp.groq = "S1"
    /\ resp.cache_get = "miss"
    /\ abstract = <<"t", "e", "x", "t">>
    /\ summaries[<<"W", "1">>] = Document("S1", UrlId)

\* C20: a summarize or quota request changes at most the sequence of its own
\* identity in the mapping of its own class; every other sequence and the whole
\* mapping of the other class stay as they are.
C20_OnlyOwnSequenceChanges ==
    [][\A rq \in ReqKinds :
          Handled(rq)
          => LET own == Bucket(rq)
             IN /\ \A b \in Buckets \ {own} :
                      BucketUsage(b, guest_summary_usage', user_summary_usage')
                         = BucketUsage(b, guest_summary_usage, user_summary_usage)
                /\ own[1] = "user" => guest_summary_usage' = guest_summary_usage
                /\ own[1] = "guest" => user_summary_usage' = user_summary_usage
                /\ own = IF rq.auth[1] = "ok" THEN <<"user", rq.auth[2]>>
                         ELSE <<"guest", rq.ip>>]_vars

\* one account has used up its units and one address has used one more, the
\* other account and the other address still hold what they started with
C20_Witness ==
    /\ Len(user_summary_usage["u2"]) = USER_LIMIT
    /\ Len(guest_summary_usage["ip2"]) = PreUsedGuest + 1
    /\ user_summary_usage["u1"] = [i \in 1..PreUsedUser |-> 0]
    /\ guest_summary_usage["ip1"] = [i \in 1..PreUsedGuest |-> 0]
    /\ resp.ep = "summarize"

====
